---- MODULE Spec2Model ----
(***************************************************************************)
(* Structural diff engine of code-change-repr: parsed trees (tree.py,      *)
(* node.py), root-path extraction, and the ChangeTree builder and          *)
(* traversal (change_tree.py).                                             *)
(*                                                                         *)
(* A Python str is a sequence of one-character strings.  An md5 hex digest *)
(* is a fixed-width token that is an injective function of the digested    *)
(* string, so a concatenation of digests is the sequence of the tokens.    *)
(***************************************************************************)
EXTENDS Naturals, Sequences, FiniteSets, TLC

\* ------------------------------------------------------------------ bounds
\* Largest number of nodes of one parse tree.
MaxNodes == 4
\* Largest number of nodes of the two parse trees of one ChangeTree together.
MaxPairNodes == 6
\* Largest max_root_paths handed to ChangeTree.__init__.
MaxCap == 2

\* Largest number of nodes of a parse tree the extraction is checked on alone.
MaxTreeNodes == 4
\* Largest number of distinct paths add_root_path is called with after a reset.
MaxAdds == 2
\* Largest number of nodes of a parse tree whose node properties are read.
MaxIdNodes == 5
\* Largest number of nodes of two such parse trees together.
MaxIdPairNodes == 7
\* Largest number of nodes of a parse tree whose change tree's order is read.
MaxOrderNodes == 5
\* Largest number of nodes of two such parse trees together.
MaxOrderPairNodes == 6
\* Largest number of nodes of a parse tree whose change tree is traversed while
\* it is built.
MaxGenNodes == 4
\* Largest number of distinct paths add_root_path is called with while a
\* traversal may be suspended.
MaxGenAdds == 3
\* Largest number of distinct paths add_root_path is called with while a parsed
\* tree is traversed.
MaxPathAdds == 1
\* Largest number of nodes of a parse tree that is traversed.
MaxCursorNodes == 4

\* What the parser hands over: the type of its root node, the types of the
\* other nodes, the texts of leaves, and what the source holds between two
\* neighbouring children of a node (a blank).
RootTypes == { <<"p">> }
NodeTypes == { <<"a">>, <<"a", "_", "b">> }
LeafTexts == { <<"b">> }
TokenGaps == { <<" ">> }
\* Leaf texts of the trees the extraction is checked on alone: the empty text
\* (a missing token) too.
PathLeafTexts == { <<>>, <<"b">> }

\* ------------------------------------------------------- sequence helpers
RECURSIVE SeqOfSet(_)
\* The elements of a finite set of naturals in ascending order.
SeqOfSet(S) ==
  IF S = {} THEN <<>>
  ELSE LET m == CHOOSE x \in S : \A y \in S : x <= y
       IN <<m>> \o SeqOfSet(S \ {m})

Range(s) == { s[i] : i \in DOMAIN s }

Last(s) == s[Len(s)]

\* s[:m] with the cap forgotten.
SliceTo_NoCap(s, m) == s

\* Python's s[:m] for m >= 0.
SliceTo(s, m) == SubSeq(s, 1, IF m < Len(s) THEN m ELSE Len(s))

\* Python's list.index: the first position holding x (0 if there is none).
IndexOf(s, x) ==
  IF \E i \in DOMAIN s : s[i] = x
  THEN CHOOSE i \in DOMAIN s : s[i] = x /\ \A j \in 1..(i-1) : s[j] # x
  ELSE 0

RECURSIVE Flatten(_)
\* Concatenation of a sequence of strings.
Flatten(ss) == IF ss = <<>> THEN <<>> ELSE Head(ss) \o Flatten(Tail(ss))

\* ------------------------------------------------------------- parse trees
\* A parse tree is a sequence of nodes; node i has a parent index (0: none), a
\* type and the text of its range in the source.  Node 1 is the
\* parser's root and the children of a node are ordered by index.
\* The parser numbers nodes in document order: the parent of node i+1 is i or
\* an ancestor of i.
RECURSIVE OnRightSpine(_, _, _)
OnRightSpine(par, i, p) ==
  IF i = 0 THEN FALSE
  ELSE IF i = p THEN TRUE ELSE OnRightSpine(par, par[i], p)

ParentArrays(n) ==
  { par \in [1..n -> 0..(n-1)] :
      /\ par[1] = 0
      /\ \A i \in 2..n : OnRightSpine(par, i-1, par[i]) }

HasChild(par, i) == \E j \in DOMAIN par : par[j] = i

RECURSIVE JoinTexts(_, _)
\* The texts of a sequence, with the gap between each two neighbours.
JoinTexts(ss, gap) ==
  IF Len(ss) = 0 THEN <<>>
  ELSE IF Len(ss) = 1 THEN ss[1]
  ELSE ss[1] \o gap \o JoinTexts(Tail(ss), gap)

RECURSIVE RangeText(_, _, _, _)
\* tree_sitter Node.text: the source text of the node's range, which for an
\* interior node runs from its first child to its last.
RangeText(par, tx, gap, i) ==
  IF ~HasChild(par, i) THEN tx[i]
  ELSE LET ch == SeqOfSet({ j \in DOMAIN par : par[j] = i })
       IN JoinTexts([k \in DOMAIN ch |-> RangeText(par, tx, gap, ch[k])], gap)

\* The parse trees of n nodes whose leaves carry texts of the given set.
ParseTreesOver(n, texts) ==
  UNION { { [i \in 1..n |-> [parent |-> par[i], type |-> ty[i],
                              text |-> RangeText(par, tx, gap, i)]] :
              ty \in { f \in [1..n -> RootTypes \cup NodeTypes] :
                         /\ f[1] \in RootTypes
                         /\ \A i \in 2..n : f[i] \in NodeTypes },
              tx \in [1..n -> texts],
              gap \in TokenGaps } :
          par \in ParentArrays(n) }

ParseTrees(n) == ParseTreesOver(n, LeafTexts)

\* ------------------------------------------------------------------ Node
\* tree_sitter Node.children
TreeSitterNode_children(t, i) == SeqOfSet({ j \in DOMAIN t : t[j].parent = i })

\* TreeSitterNode.parent (0 models None)
TreeSitterNode_parent(t, i) == t[i].parent

\* Node.is_leaf
is_leaf(t, i) == Len(TreeSitterNode_children(t, i)) = 0

\* TreeSitterNode.value: the parser's text of the node's range.
TreeSitterNode_value(t, i) == t[i].text

RECURSIVE ancestors(_, _)
\* Node.ancestors: immediate parent first, root last.
ancestors(t, i) ==
  IF TreeSitterNode_parent(t, i) = 0 THEN <<>>
  ELSE <<TreeSitterNode_parent(t, i)>> \o ancestors(t, TreeSitterNode_parent(t, i))

RECURSIVE RankLoop(_, _, _, _, _)
\* The loop of child_rank over self.parent.children from position k: it ends at
\* the node itself and counts the siblings of its type met before.
RankLoop(t, siblings, k, i, rank) ==
  IF k > Len(siblings) THEN rank
  ELSE IF siblings[k] = i THEN rank
  ELSE RankLoop(t, siblings, k + 1, i,
                IF t[siblings[k]].type = t[i].type THEN rank + 1 ELSE rank)

\* child_rank without the break at the node itself: the later siblings count too.
TreeSitterNode_child_rank_NoBreak(t, i) ==
  IF TreeSitterNode_parent(t, i) = 0 THEN 0
  ELSE Cardinality({ j \in Range(TreeSitterNode_children(t, TreeSitterNode_parent(t, i))) :
                       j # i /\ t[j].type = t[i].type })

\* TreeSitterNode.child_rank
TreeSitterNode_child_rank(t, i) ==
  IF TreeSitterNode_parent(t, i) = 0 THEN 0
  ELSE RankLoop(t, TreeSitterNode_children(t, TreeSitterNode_parent(t, i)), 1, i, 0)

\* Node.ast_identifier (<<>> models both None and the empty string, which the
\* caller's truth test does not tell apart)
ast_identifier(t, i) == IF is_leaf(t, i) THEN TreeSitterNode_value(t, i) ELSE <<>>

Digit(d) ==
  CASE d = 0 -> "0" [] d = 1 -> "1" [] d = 2 -> "2" [] d = 3 -> "3"
    [] d = 4 -> "4" [] d = 5 -> "5" [] d = 6 -> "6" [] d = 7 -> "7"
    [] d = 8 -> "8" [] d = 9 -> "9"

RECURSIVE DecStr(_)
\* str(n) for a natural number n
DecStr(n) == IF n < 10 THEN <<Digit(n)>> ELSE DecStr(n \div 10) \o <<Digit(n % 10)>>

\* "node_" + hashlib.md5(s).hexdigest(): injective in s, of fixed width
NodeDigest(s) == <<"node_", s>>

\* The string Node.relative_id digests.
RelativeStr(depth, rank, type, ast_id) ==
  LET str_repr == DecStr(depth) \o <<"_">> \o DecStr(rank) \o <<"_">> \o type
  IN IF ast_id # <<>> THEN str_repr \o <<"_">> \o ast_id ELSE str_repr

\* Node.relative_id
relative_id(t, i) ==
  NodeDigest(RelativeStr(Len(ancestors(t, i)), TreeSitterNode_child_rank(t, i), t[i].type,
                         ast_identifier(t, i)))

\* to_node_path over the ancestors in reverse: the root first.
to_node_path_RootFirst(t, i) ==
  LET anc == ancestors(t, i)
  IN [k \in DOMAIN anc |-> relative_id(t, anc[Len(anc) + 1 - k])]

\* Node.to_node_path
to_node_path(t, i) ==
  LET anc == ancestors(t, i)
  IN [k \in DOMAIN anc |-> relative_id(t, anc[k])]

\* id digesting the relative fingerprint alone, the path left out.
TreeSitterNode_id_NoPath(t, i) == NodeDigest(<<relative_id(t, i), "_">>)

\* TreeSitterNode.id
TreeSitterNode_id(t, i) == NodeDigest(<<relative_id(t, i), "_">> \o to_node_path(t, i))

\* ------------------------------------------------------- TreeSitterTree
\* A TreeSitterTree is [nodes |-> parse tree, root |-> index of its root node].
\* TreeCursor.goto_first_child: the node moved to, 0 when the move fails.
goto_first_child(t, c) ==
  LET ch == TreeSitterNode_children(t, c) IN IF Len(ch) = 0 THEN 0 ELSE ch[1]

\* A cursor that moves to the next sibling of the node it was made on.
goto_next_sibling_Unconfined(t, r, c) ==
  IF TreeSitterNode_parent(t, c) = 0 THEN 0
  ELSE LET later == { j \in Range(TreeSitterNode_children(t, TreeSitterNode_parent(t, c))) : j > c }
       IN IF later = {} THEN 0 ELSE CHOOSE j \in later : \A x \in later : j <= x

\* TreeCursor.goto_next_sibling of a cursor made by walk() on node r: the cursor
\* never leaves the subtree of r.
goto_next_sibling(t, r, c) ==
  IF c = r \/ TreeSitterNode_parent(t, c) = 0 THEN 0
  ELSE LET later == { j \in Range(TreeSitterNode_children(t, TreeSitterNode_parent(t, c))) : j > c }
       IN IF later = {} THEN 0 ELSE CHOOSE j \in later : \A x \in later : j <= x

\* TreeCursor.goto_parent of a cursor made by walk() on node r.
goto_parent(t, r, c) == IF c = r THEN 0 ELSE TreeSitterNode_parent(t, c)

RECURSIVE Retrace(_, _, _)
\* The retracing loop of TreeSitterTree.traverse: the node the outer loop
\* continues with, 0 when reached_root is set.
Retrace(t, r, c) ==
  LET up == goto_parent(t, r, c)
  IN IF up = 0 THEN 0
     ELSE LET sib == goto_next_sibling(t, r, up)
          IN IF sib # 0 THEN sib ELSE Retrace(t, r, up)

\* The body of the outer loop of TreeSitterTree.traverse after its yield: the
\* node the cursor stands on at the next yield, 0 when reached_root is set.
CursorAdvance(t, r, c) ==
  LET down == goto_first_child(t, c)
      sib  == goto_next_sibling(t, r, c)
  IN IF down # 0 THEN down ELSE IF sib # 0 THEN sib ELSE Retrace(t, r, c)

RECURSIVE TraverseFrom(_, _, _)
TraverseFrom(t, r, c) ==
  LET next == CursorAdvance(t, r, c)
  IN <<c>> \o (IF next = 0 THEN <<>> ELSE TraverseFrom(t, r, next))

\* list(TreeSitterTree.traverse()): the nodes in the order they are yielded.
TreeSitterTree_traverse(tree) == TraverseFrom(tree.nodes, tree.root, tree.root)

\* TreeSitterTree.get_root: the node a fresh cursor of walk() stands on
get_root(tree) == tree.root

RECURSIVE get_root_path(_, _)
\* TreeSitterTree.get_root_path
get_root_path(t, i) ==
  IF TreeSitterNode_parent(t, i) = 0 THEN <<i>> ELSE Append(get_root_path(t, TreeSitterNode_parent(t, i)), i)

\* get_root_paths without the is_leaf test.
get_root_paths_NoLeafTest(tree) ==
  LET every == TreeSitterTree_traverse(tree)
  IN [k \in DOMAIN every |-> get_root_path(tree.nodes, every[k])]

\* TreeSitterTree.get_root_paths
get_root_paths(tree) ==
  LET t == tree.nodes
      leaves == SelectSeq(TreeSitterTree_traverse(tree), LAMBDA i : is_leaf(t, i))
  IN [k \in DOMAIN leaves |-> get_root_path(t, leaves[k])]

\* ----------------------------------------------------------- ChangeTree
\* ChangeTree.RootPath.__init__
RootPath(t, path) ==
  [path |-> path, node_ids |-> [k \in DOMAIN path |-> TreeSitterNode_id(t, path[k])]]

\* RootPath compared by object reference: a base path never equals another list's.
RootPath_eq_ByReference(p, q) == FALSE

\* ChangeTree.RootPath.__eq__
RootPath_eq(p, q) ==
  /\ Len(p.node_ids) = Len(q.node_ids)
  /\ \A i \in DOMAIN p.node_ids : p.node_ids[i] = q.node_ids[i]

\* The root-path list ChangeTree.__init__ stores for one tree.
StoredPaths(tree, cap) ==
  LET all == SliceTo(get_root_paths(tree), cap)
  IN [k \in DOMAIN all |-> RootPath(tree.nodes, all[k])]

\* The factory leaving child_rank at 0.
chtree_node_from_sitter_node_NoRank(t, i) ==
  [id |-> TreeSitterNode_id(t, i), child_rank |-> 0, type |-> t[i].type,
   value |-> TreeSitterNode_value(t, i), parent |-> 0, children |-> <<>>]

\* NodeFactory.chtree_node_from_sitter_node
chtree_node_from_sitter_node(t, i) ==
  [id |-> TreeSitterNode_id(t, i), child_rank |-> TreeSitterNode_child_rank(t, i), type |-> t[i].type,
   value |-> TreeSitterNode_value(t, i), parent |-> 0, children |-> <<>>]

\* Node.is_repr_same
is_repr_same(a, b) == a.id = b.id

\* The change tree is [root |-> index of the root node (0: None), nodes |-> the
\* ChangeTreeNodes reachable from it, raised |-> whether ValueError was raised].
EmptyChangeTree == [root |-> 0, nodes |-> <<>>, raised |-> FALSE]

\* The lookup among parent.children never finding a match.
FindChild_Never(nodes, parent, node) == 0

\* The lookup that compares the last child of parent only.
FindChild_LastOnly(nodes, parent, node) ==
  LET ch == nodes[parent].children
  IN IF ch # <<>> /\ is_repr_same(nodes[Last(ch)], node) THEN Last(ch) ELSE 0

\* The first child of parent that is_repr_same as node (0: none).
FindChild(nodes, parent, node) ==
  LET ch == nodes[parent].children
      hits == { k \in DOMAIN ch : is_repr_same(nodes[ch[k]], node) }
  IN IF hits = {} THEN 0 ELSE ch[CHOOSE k \in hits : \A x \in hits : k <= x]

\* The append without new_node.parent = parent.
AttachChild_NoParentLink(nodes, parent, node) ==
  LET new == Len(nodes) + 1
  IN [Append(nodes, node) EXCEPT ![parent].children = Append(@, new)]

\* The new node put in front of the children instead of behind them.
AttachChild_First(nodes, parent, node) ==
  LET new == Len(nodes) + 1
  IN [Append(nodes, [node EXCEPT !.parent = parent])
        EXCEPT ![parent].children = <<new>> \o @]

\* new_node.parent = parent; parent.children.append(new_node)
AttachChild(nodes, parent, node) ==
  LET new == Len(nodes) + 1
  IN [Append(nodes, [node EXCEPT !.parent = parent])
        EXCEPT ![parent].children = Append(@, new)]

RECURSIVE AddPathNodes(_, _, _, _, _)
\* The loop of add_root_path over root_path[1:], from position k.
AddPathNodes(nodes, parent, t, path, k) ==
  IF k > Len(path) THEN nodes
  ELSE LET node_in_path == chtree_node_from_sitter_node(t, path[k])
           next_node == FindChild(nodes, parent, node_in_path)
       IN IF next_node # 0
          THEN AddPathNodes(nodes, next_node, t, path, k + 1)
          ELSE AddPathNodes(AttachChild(nodes, parent, node_in_path),
                            Len(nodes) + 1, t, path, k + 1)

\* add_root_path without the is_repr_same test of the root.
add_root_path_NoRootCheck(ct, t, path) ==
  LET root_in_path == chtree_node_from_sitter_node(t, path[1])
  IN IF ct.root = 0
     THEN [root |-> 1, raised |-> FALSE,
           nodes |-> AddPathNodes(<<root_in_path>>, 1, t, path, 2)]
     ELSE [ct EXCEPT !.raised = FALSE,
                     !.nodes = AddPathNodes(ct.nodes, ct.root, t, path, 2)]

\* add_root_path comparing the roots only after it merged the path.
add_root_path_LateCheck(ct, t, path) ==
  LET root_in_path == chtree_node_from_sitter_node(t, path[1])
  IN IF ct.root = 0
     THEN [root |-> 1, raised |-> FALSE,
           nodes |-> AddPathNodes(<<root_in_path>>, 1, t, path, 2)]
     ELSE [ct EXCEPT !.raised = ~is_repr_same(ct.nodes[ct.root], root_in_path),
                     !.nodes = AddPathNodes(ct.nodes, ct.root, t, path, 2)]

\* ChangeTree.add_root_path on the nodes of parse tree t
add_root_path(ct, t, path) ==
  LET root_in_path == chtree_node_from_sitter_node(t, path[1])
  IN IF ct.root = 0
     THEN [root |-> 1, raised |-> FALSE,
           nodes |-> AddPathNodes(<<root_in_path>>, 1, t, path, 2)]
     ELSE IF ~is_repr_same(ct.nodes[ct.root], root_in_path)
     THEN [ct EXCEPT !.raised = TRUE]
     ELSE [ct EXCEPT !.raised = FALSE,
                     !.nodes = AddPathNodes(ct.nodes, ct.root, t, path, 2)]

\* changed_paths without difference_update(other_set).
changed_paths_KeepShared(base_set, other_set) ==
  LET keys == { IndexOf([k \in DOMAIN base_set |-> base_set[k].node_ids],
                        p.node_ids) : p \in Range(base_set) }
      order == SeqOfSet(keys)
  IN [k \in DOMAIN order |-> base_set[order[k]]]

\* changed_paths of create_path_diffs: the stored paths of base_set equal to no
\* path of other_set, one per identity sequence, sorted by base_set.index.
changed_paths(base_set, other_set) ==
  LET changed == { p \in Range(base_set) :
                     \A q \in Range(other_set) : ~RootPath_eq(p, q) }
      keys == { IndexOf([k \in DOMAIN base_set |-> base_set[k].node_ids],
                        p.node_ids) : p \in changed }
      order == SeqOfSet(keys)
  IN [k \in DOMAIN order |-> base_set[order[k]]]

RECURSIVE AddAll(_, _, _, _)
\* The loop of create_path_diffs; a raised ValueError ends it.
AddAll(ct, t, paths, k) ==
  IF k > Len(paths) THEN ct
  ELSE LET next == add_root_path(ct, t, paths[k].path)
       IN IF next.raised THEN next ELSE AddAll(next, t, paths, k + 1)

\* create_path_diffs without self.root = None: the paths go into the old tree.
create_path_diffs_NoReset(ct, t, base_set, other_set) ==
  AddAll(ct, t, changed_paths(base_set, other_set), 1)

\* ChangeTree.create_path_diffs on the change tree ct, base_set being paths of
\* parse tree t: self.root = None lets go of every node of the old tree.
create_path_diffs(ct, t, base_set, other_set) ==
  AddAll([ct EXCEPT !.root = 0, !.nodes = <<>>], t,
         changed_paths(base_set, other_set), 1)

\* ChangeTree.is_aleady_visited
is_aleady_visited(nodes, n, visited_nodes) ==
  \E k \in DOMAIN visited_nodes : nodes[n].id = nodes[visited_nodes[k]].id

\* The scan of node.children run from the last child to the first.
FirstUnvisitedChild_LastFirst(nodes, n, visited_nodes) ==
  LET ch == nodes[n].children
      open == { k \in DOMAIN ch : ~is_aleady_visited(nodes, ch[k], visited_nodes) }
  IN IF open = {} THEN 0 ELSE ch[CHOOSE k \in open : \A x \in open : k >= x]

\* The scan of node.children looking at the first child only.
FirstUnvisitedChild_OnlyFirst(nodes, n, visited_nodes) ==
  LET ch == nodes[n].children
  IN IF ch # <<>> /\ ~is_aleady_visited(nodes, ch[1], visited_nodes) THEN ch[1] ELSE 0

\* The first child of n that is not yet visited (0: traverse_up stays True).
FirstUnvisitedChild(nodes, n, visited_nodes) ==
  LET ch == nodes[n].children
      open == { k \in DOMAIN ch : ~is_aleady_visited(nodes, ch[k], visited_nodes) }
  IN IF open = {} THEN 0 ELSE ch[CHOOSE k \in open : \A x \in open : k <= x]

RECURSIVE TraverseStep(_, _, _, _)
\* The while loop of ChangeTree.traverse from its top with the current node, up
\* to the next yield: the generator is suspended at the node it yields, or it
\* is done (node is None), or it never comes back.  since holds the nodes the
\* loop stood on since the generator was resumed: nothing it reads changes
\* while it runs, so standing on one of them again it repeats forever.
TraverseStep(nodes, node, visited_nodes, since) ==
  IF node = 0 THEN [st |-> "done", node |-> 0]
  ELSE IF ~is_aleady_visited(nodes, node, visited_nodes)
  THEN [st |-> "suspended", node |-> node]
  ELSE IF node \in since THEN [st |-> "hung", node |-> node]
  ELSE LET child == FirstUnvisitedChild(nodes, node, visited_nodes)
           next == IF child # 0 THEN child ELSE nodes[node].parent
       IN TraverseStep(nodes, next, visited_nodes, since \cup {node})

\* The generator ChangeTree.traverse() returns, together with the nodes it
\* reads.  st: "none" (no generator, or one that is exhausted), "suspended" (at
\* its yield, node being the node yielded last), "hung" (resumed and never back);
\* visited_nodes: the local list; held: the nodes of the tree the generator walks
\* when a create call has let go of them (empty while it walks the tree of the
\* ChangeTree); clean: no call changed the tree since the generator started.
NoGen ==
  [st |-> "none", node |-> 0, visited_nodes |-> <<>>, held |-> <<>>, clean |-> TRUE]

\* The nodes a generator reads.
GenNodes(nodes, g) == IF g.held # <<>> THEN g.held ELSE nodes

\* The first next() of a generator: visited_nodes = [], node = self.root, and
\* the loop up to the first yield.
ChangeTree_traverse_start(root, nodes) ==
  LET r == TraverseStep(nodes, root, <<>>, {})
  IN [NoGen EXCEPT !.st = r.st, !.node = r.node]

\* A later next(): the generator appends the node it yielded, scans its
\* children, and runs the loop up to the next yield.
ChangeTree_traverse_resume(nodes, g) ==
  LET ns == GenNodes(nodes, g)
      vis == Append(g.visited_nodes, g.node)
      child == FirstUnvisitedChild(ns, g.node, vis)
      next == IF child # 0 THEN child ELSE ns[g.node].parent
      r == TraverseStep(ns, next, vis, {g.node})
  IN [g EXCEPT !.st = r.st, !.node = r.node, !.visited_nodes = vis]

\* A next() that empties the children list of the node yielded before.
ChangeTree_traverse_next_Consuming(root, nodes, g) ==
  [gen |-> IF g.st = "suspended" THEN ChangeTree_traverse_resume(nodes, g)
           ELSE ChangeTree_traverse_start(root, nodes),
   nodes |-> IF g.st = "suspended" /\ g.held = <<>>
             THEN [nodes EXCEPT ![g.node].children = <<>>] ELSE nodes]

\* next() on the generator g (a fresh generator when g is not suspended): the
\* generator after it and the nodes of the change tree after it; the generator
\* assigns to its locals node, visited_nodes and traverse_up only.
ChangeTree_traverse_next(root, nodes, g) ==
  [gen |-> IF g.st = "suspended" THEN ChangeTree_traverse_resume(nodes, g)
           ELSE ChangeTree_traverse_start(root, nodes),
   nodes |-> nodes]

RECURSIVE Drain(_, _)
\* next() on g until it is exhausted or hangs.
Drain(nodes, g) ==
  IF g.st = "suspended" THEN Drain(nodes, ChangeTree_traverse_resume(nodes, g))
  ELSE [yielded |-> g.visited_nodes, terminated |-> g.st = "done"]

\* list(ChangeTree.traverse()): what a traversal nothing interrupts yields, and
\* whether it ends.
ChangeTree_traverse(root, nodes) == Drain(nodes, ChangeTree_traverse_start(root, nodes))

\* ------------------------------------------------------------ the state
VARIABLES
  before_tree,     \* ChangeTree.before_tree
  after_tree,      \* ChangeTree.after_tree
  max_root_paths,  \* ChangeTree.max_root_paths
  before_paths,    \* ChangeTree.before_paths
  after_paths,     \* ChangeTree.after_paths
  root,            \* ChangeTree.root: index into nodes, 0 for None
  nodes,           \* the ChangeTreeNodes reachable from root, in creation order
  added,           \* identity sequences of the paths add_root_path merged since the last reset
  gen,             \* the generator of ChangeTree.traverse() the caller holds
  cursor,          \* the generator of TreeSitterTree.traverse() the caller holds
  result           \* what the last call that ended returned or raised (for a
                   \* create call also the size of the tree it let go of, for
                   \* add_root_path the number of nodes it created, for a
                   \* traversal all it yielded up to its end)

vars == <<before_tree, after_tree, max_root_paths, before_paths, after_paths,
          root, nodes, added, gen, cursor, result>>

\* The generator TreeSitterTree.traverse() returns: the tree it walks, the node
\* its cursor stands on at the yield it is suspended at, and what it yielded.
NoCursor == [st |-> "none", side |-> "before", node |-> 0, yielded |-> <<>>]

\* The TreeSitterTrees a ChangeTree is built from.
SourceTrees ==
  UNION { { [nodes |-> t, root |-> 1] : t \in ParseTrees(n) } : n \in 1..MaxNodes }

TreeOf(side) == IF side = "before" THEN before_tree ELSE after_tree

\* ChangeTree.__init__
Init ==
  /\ before_tree \in SourceTrees
  /\ after_tree \in SourceTrees
  /\ Len(before_tree.nodes) + Len(after_tree.nodes) <= MaxPairNodes
  /\ max_root_paths \in 0..MaxCap
  /\ before_paths = StoredPaths(before_tree, max_root_paths)
  /\ after_paths = StoredPaths(after_tree, max_root_paths)
  /\ root = 0
  /\ nodes = <<>>
  /\ added = {}
  /\ gen = NoGen
  /\ cursor = NoCursor
  /\ result = [op |-> "init"]

Frozen == UNCHANGED <<before_tree, after_tree, max_root_paths, before_paths, after_paths>>

\* No call is in progress that never returns.
Returned == gen.st # "hung"

\* A suspended generator after a create call: self.root = None lets go of the
\* nodes, the generator still holds the node it yielded and walks on in them.
LetGo(g, ns) ==
  IF g.st = "suspended"
  THEN [g EXCEPT !.held = IF @ = <<>> THEN ns ELSE @, !.clean = FALSE]
  ELSE g

\* A suspended generator after a call that left the nodes of the change tree as
\* after: the generator reads them when it is resumed.
Touched(g, ns, after) ==
  IF g.st = "suspended" /\ g.held = <<>> /\ after # ns
  THEN [g EXCEPT !.clean = FALSE]
  ELSE g

\* The identity sequences of the paths create_path_diffs merged before it ended.
MergedBy(ct, paths) ==
  IF ct.raised THEN {}
  ELSE { paths[k].node_ids : k \in DOMAIN paths }

\* ChangeTree.create_before
create_before ==
  LET ct == create_path_diffs([root |-> root, nodes |-> nodes, raised |-> FALSE],
                              before_tree.nodes, before_paths, after_paths)
  IN /\ Returned
     /\ root' = ct.root
     /\ nodes' = ct.nodes
     /\ added' = MergedBy(ct, changed_paths(before_paths, after_paths))
     /\ gen' = LetGo(gen, nodes)
     /\ result' = [op |-> "create_before", raised |-> ct.raised,
                   replaced |-> Len(nodes)]
     /\ UNCHANGED cursor
     /\ Frozen

\* ChangeTree.create_after
create_after ==
  LET ct == create_path_diffs([root |-> root, nodes |-> nodes, raised |-> FALSE],
                              after_tree.nodes, after_paths, before_paths)
  IN /\ Returned
     /\ root' = ct.root
     /\ nodes' = ct.nodes
     /\ added' = MergedBy(ct, changed_paths(after_paths, before_paths))
     /\ gen' = LetGo(gen, nodes)
     /\ result' = [op |-> "create_after", raised |-> ct.raised,
                   replaced |-> Len(nodes)]
     /\ UNCHANGED cursor
     /\ Frozen

\* ChangeTree.add_root_path, called with a root path of either source tree,
\* while at most most distinct paths are merged after a reset
AddRootPathUpTo(most) ==
  \E side \in {"before", "after"} :
    \E path \in Range(get_root_paths(TreeOf(side))) :
      LET t == TreeOf(side).nodes
          ct == add_root_path([root |-> root, nodes |-> nodes, raised |-> FALSE], t, path)
      IN /\ Returned
         /\ \/ RootPath(t, path).node_ids \in added
            \/ Cardinality(added) < most
         /\ root' = ct.root
         /\ nodes' = ct.nodes
         /\ added' = IF ct.raised THEN added
                     ELSE added \cup { RootPath(t, path).node_ids }
         /\ gen' = Touched(gen, nodes, ct.nodes)
         /\ result' = [op |-> "add_root_path", raised |-> ct.raised,
                       first_id |-> TreeSitterNode_id(t, path[1]),
                       created |-> Len(ct.nodes) - Len(nodes)]
         /\ UNCHANGED cursor
         /\ Frozen

AddRootPathCall == AddRootPathUpTo(MaxAdds)

\* What the caller has of a traversal when next() has returned and left the
\* generator as h: nothing new while h is suspended at a yield; at the end
\* (StopIteration, or a next() that never returns) all the generator yielded,
\* whether it ended, whether the tree was left alone while it ran, and whether
\* the call that ended before it was such a traversal of the same tree.
Traversed(h) ==
  IF h.st = "suspended" THEN result
  ELSE [op |-> "traverse", yielded |-> h.visited_nodes,
        terminated |-> h.st = "done", clean |-> h.clean,
        again |-> /\ h.clean
                  /\ result.op = "traverse"
                  /\ result.clean
                  /\ result.terminated]

\* An exhausted generator is let go of.
Kept(h) == IF h.st = "done" THEN NoGen ELSE h

\* g = ChangeTree.traverse(); next(g): the caller lets go of the generator it
\* held and gets the first node of a new one.  traverse() itself runs no line
\* of the body: self.root is read at the first next().
TraverseStart ==
  LET run == ChangeTree_traverse_next(root, nodes, NoGen)
  IN /\ Returned
     /\ gen' = Kept(run.gen)
     /\ nodes' = run.nodes
     /\ result' = Traversed(run.gen)
     /\ UNCHANGED <<root, added, cursor>>
     /\ Frozen

\* next(g) on the suspended generator
TraverseResume ==
  LET run == ChangeTree_traverse_next(root, nodes, gen)
  IN /\ gen.st = "suspended"
     /\ gen' = Kept(run.gen)
     /\ nodes' = run.nodes
     /\ result' = Traversed(run.gen)
     /\ UNCHANGED <<root, added, cursor>>
     /\ Frozen

Next ==
  \/ create_before
  \/ create_after
  \/ AddRootPathCall

Spec == Init /\ [][Next]_vars

\* ------------------------------------- traversal while the tree is built
\* The source trees of a ChangeTree that is traversed while it is built: paths
\* are added, or the tree is replaced, between two next() of one generator.
GenTrees ==
  UNION { { [nodes |-> t, root |-> 1] : t \in ParseTrees(n) } : n \in 1..MaxGenNodes }

\* ChangeTree.__init__ on such a tree and a tree of a single node, with a cap
\* that cuts no path list
InitTraverse ==
  /\ before_tree \in GenTrees
  /\ after_tree \in GenTrees
  /\ Len(after_tree.nodes) = 1
  /\ max_root_paths = MaxGenNodes
  /\ before_paths = StoredPaths(before_tree, max_root_paths)
  /\ after_paths = StoredPaths(after_tree, max_root_paths)
  /\ root = 0
  /\ nodes = <<>>
  /\ added = {}
  /\ gen = NoGen
  /\ cursor = NoCursor
  /\ result = [op |-> "init"]

NextTraverse ==
  \/ create_before
  \/ create_after
  \/ AddRootPathUpTo(MaxGenAdds)
  \/ TraverseStart
  \/ TraverseResume

SpecTraverse == InitTraverse /\ [][NextTraverse]_vars

\* --------------------------------------------------- reading a change tree
RECURSIVE IdsToRoot(_, _)
\* The identities from the root down to node n, along the parent links.
IdsToRoot(ns, n) ==
  IF ns[n].parent = 0 THEN <<ns[n].id>>
  ELSE Append(IdsToRoot(ns, ns[n].parent), ns[n].id)

\* The root-to-leaf identity sequences of the change tree.
LeafIdPaths == { IdsToRoot(nodes, n) : n \in { k \in DOMAIN nodes : nodes[k].children = <<>> } }

IdSeqs(paths) == { paths[k].node_ids : k \in DOMAIN paths }

\* The identity sequences of all root-to-leaf paths of a source tree.
AllIdSeqs(tree) ==
  { RootPath(tree.nodes, p).node_ids : p \in Range(get_root_paths(tree)) }

Built(op) == result.op = op /\ ~result.raised

\* C1: after create_before the root-to-leaf identity sequences of the change
\* tree are exactly the stored before_paths equal to no stored after_path, and
\* after create_after exactly the stored after_paths equal to no stored
\* before_path: none is missing and there is no other.
C1_ExactDifference ==
  /\ Built("create_before") => LeafIdPaths = IdSeqs(before_paths) \ IdSeqs(after_paths)
  /\ Built("create_after") => LeafIdPaths = IdSeqs(after_paths) \ IdSeqs(before_paths)

\* C2 as stated: for every max_root_paths, no root-to-leaf identity sequence of
\* the tree create_before built is that of a root-to-leaf path of the after tree
\* (and the same for create_after and the before tree).
C2_AsStated ==
  /\ Built("create_before") => LeafIdPaths \cap AllIdSeqs(after_tree) = {}
  /\ Built("create_after") => LeafIdPaths \cap AllIdSeqs(before_tree) = {}

Uncapped(tree) == max_root_paths >= Len(get_root_paths(tree))

\* C2, amended: no root-to-leaf identity sequence of the tree create_before
\* built is that of one of the stored after_paths, the first max_root_paths root
\* paths of the after tree; it is that of no path of the after tree when
\* max_root_paths is at least the number of leaves of the after tree (and the
\* same for create_after and the before tree).
C2_UniqueToStored ==
  /\ Built("create_before") =>
       /\ LeafIdPaths \cap IdSeqs(after_paths) = {}
       /\ Uncapped(after_tree) => LeafIdPaths \cap AllIdSeqs(after_tree) = {}
  /\ Built("create_after") =>
       /\ LeafIdPaths \cap IdSeqs(before_paths) = {}
       /\ Uncapped(before_tree) => LeafIdPaths \cap AllIdSeqs(before_tree) = {}

\* create_before kept some before path and dropped one the after tree shares.
C2_Witness ==
  /\ Built("create_before")
  /\ LeafIdPaths # {}
  /\ IdSeqs(before_paths) \cap IdSeqs(after_paths) # {}

Created == result.op \in {"create_before", "create_after"}

\* C3 as stated: when the two trees have the same set of root paths, both
\* construction modes end without raising and leave the tree rootless.
C3_AsStated ==
  (Created /\ AllIdSeqs(before_tree) = AllIdSeqs(after_tree)) =>
    (~result.raised /\ root = 0)

\* C3, amended: when the stored before_paths and after_paths (what is left after
\* the max_root_paths cap) are the same set of identity sequences, both
\* construction modes end without raising and leave the tree rootless, and
\* traverse() of a rootless tree yields no node.
C3_SameStoredPathsRootless ==
  (Created /\ IdSeqs(before_paths) = IdSeqs(after_paths)) =>
    /\ ~result.raised
    /\ root = 0
    /\ nodes = <<>>
    /\ ChangeTree_traverse(root, nodes) = [yielded |-> <<>>, terminated |-> TRUE]

\* create_before ran on two trees that store the same non-empty path set.
C3_Witness ==
  /\ result.op = "create_before"
  /\ before_paths # <<>>
  /\ IdSeqs(before_paths) = IdSeqs(after_paths)
  /\ root = 0

\* The identities occurring on the paths merged since the last reset.
AddedIds == UNION { Range(ids) : ids \in added }

\* C4: after successful add_root_path calls every shared prefix is there once:
\* no node has two children of one identity, no two nodes have one identity,
\* and there are as many nodes as distinct identities on the added paths.
C4_PrefixesMergedOnce ==
  /\ \A n \in DOMAIN nodes :
       \A i, j \in DOMAIN nodes[n].children :
         i # j => nodes[nodes[n].children[i]].id # nodes[nodes[n].children[j]].id
  /\ \A m, n \in DOMAIN nodes : m # n => nodes[m].id # nodes[n].id
  /\ Len(nodes) = Cardinality(AddedIds)
  /\ { nodes[n].id : n \in DOMAIN nodes } = AddedIds

\* Two different paths sharing a prefix of two nodes were added.
C4_Witness ==
  /\ result.op = "add_root_path"
  /\ ~result.raised
  /\ \E a, b \in added :
       /\ a # b
       /\ Len(a) >= 3 /\ Len(b) >= 3
       /\ a[2] = b[2]
       /\ Len(nodes) = Len(a) + Len(b) - 2

\* C5: on a tree that has a root, add_root_path raises exactly when the first
\* node of the path differs in identity from the root; the tree never has more
\* than one root.
C5_RootMismatchRaises ==
  /\ result.op = "add_root_path" =>
       /\ root # 0
       /\ result.raised <=> result.first_id # nodes[root].id
  /\ \A n \in DOMAIN nodes : nodes[n].parent = 0 <=> n = root

\* add_root_path raised on a tree whose root has another identity.
C5_Witness ==
  /\ result.op = "add_root_path"
  /\ result.raised
  /\ root # 0
  /\ result.first_id # nodes[root].id

\* C6: parent and child links agree: the root has no parent, every other node
\* has one, c is in n.children exactly when c.parent is n, and no node occurs
\* twice in a children list.
C6_LinksConsistent ==
  /\ root = 0 <=> nodes = <<>>
  /\ root # 0 => root \in DOMAIN nodes /\ nodes[root].parent = 0
  /\ \A n \in DOMAIN nodes : n # root => nodes[n].parent \in DOMAIN nodes
  /\ \A n, c \in DOMAIN nodes :
       c \in Range(nodes[n].children) <=> nodes[c].parent = n
  /\ \A n \in DOMAIN nodes :
       /\ Range(nodes[n].children) \subseteq DOMAIN nodes
       /\ Cardinality(Range(nodes[n].children)) = Len(nodes[n].children)

\* The tree has a node with two children.
C6_Witness ==
  \E n \in DOMAIN nodes : Len(nodes[n].children) >= 2

RECURSIVE ReachableFrom(_, _)
\* The nodes reachable from the set S along the children lists.
ReachableFrom(ns, S) ==
  LET more == S \cup UNION { Range(ns[n].children) : n \in S }
  IN IF more = S THEN S ELSE ReachableFrom(ns, more)

Reachable == IF root = 0 THEN {} ELSE ReachableFrom(nodes, {root})

\* The last call that ended is a traversal of the change tree as it is: no call
\* changed the tree while the generator was suspended.
TraversedAsIs == result.op = "traverse" /\ result.clean

\* C7: traverse() of a tree the construction calls produced ends, also when
\* such calls run while it is suspended; consumed on the tree as the calls
\* left it, it yields every node reachable from the root once, and on a
\* rootless tree it yields nothing.
C7_TraverseCoversOnce ==
  /\ gen.st # "hung"
  /\ result.op = "traverse" => result.terminated
  /\ TraversedAsIs =>
    /\ Range(result.yielded) = Reachable
    /\ Len(result.yielded) = Cardinality(Reachable)
    /\ root = 0 => result.yielded = <<>>

\* traverse() ran on a tree with a branching node and four nodes or more.
C7_Witness ==
  /\ TraversedAsIs
  /\ Len(nodes) >= 4
  /\ \E n \in DOMAIN nodes : Len(nodes[n].children) >= 2

NumLeaves(tree) ==
  Cardinality({ i \in DOMAIN tree.nodes : \A j \in DOMAIN tree.nodes : tree.nodes[j].parent # i })

Min(a, b) == IF a < b THEN a ELSE b

IsCappedPrefix(stored, tree) ==
  /\ Len(stored) = Min(NumLeaves(tree), max_root_paths)
  /\ \A k \in DOMAIN stored :
       /\ stored[k].path = get_root_paths(tree)[k]
       /\ stored[k].node_ids = [i \in DOMAIN stored[k].path |-> TreeSitterNode_id(tree.nodes, stored[k].path[i])]

\* C9: the path list stored for a tree with L leaves under max_root_paths m has
\* min(L, m) entries and is the prefix of that length of get_root_paths().
C9_CappedPrefix ==
  /\ IsCappedPrefix(before_paths, before_tree)
  /\ IsCappedPrefix(after_paths, after_tree)

\* A tree with more leaves than a positive cap.
C9_Witness ==
  /\ max_root_paths > 0
  /\ NumLeaves(before_tree) > max_root_paths
  /\ Len(before_paths) = max_root_paths

\* ------------------------------------------- a deliberately shared child
InsertAt(s, k, x) == SubSeq(s, 1, k) \o <<x>> \o SubSeq(s, k + 1, Len(s))

\* The nodes that are in the children lists of two different nodes.
SharedChildren ==
  { x \in DOMAIN nodes :
      Cardinality({ n \in DOMAIN nodes : x \in Range(nodes[n].children) }) = 2 }

\* The nodes whose parent pointer names a node that does not hold them as a
\* child.
Astray ==
  { c \in DOMAIN nodes :
      nodes[c].parent # 0 /\ c \notin Range(nodes[nodes[c].parent].children) }

\* q.children.insert(k, x) by a caller, on the list ChangeTreeNode.children
\* hands out: node x, a child of its parent, is also put into the children list
\* of another node q (one of its own descendants included), at any position.
\* The parent pointer of x is not written.  One link is duplicated, on the one
\* node whose links a caller touches.
ChildrenInsert ==
  /\ Returned
  /\ root # 0
  /\ SharedChildren = {}
  /\ \E x \in DOMAIN nodes \ {root} :
       \E q \in DOMAIN nodes \ {x} :
         \E k \in 0..Len(nodes[q].children) :
           /\ Astray \subseteq {x}
           /\ x \notin Range(nodes[q].children)
           /\ nodes' = [nodes EXCEPT ![q].children = InsertAt(@, k, x)]
           /\ gen' = Touched(gen, nodes, nodes')
           /\ result' = [op |-> "children_insert", child |-> x]
  /\ UNCHANGED <<root, added, cursor>>
  /\ Frozen

\* x.parent = q by a caller, the setter of ChangeTreeNode.parent: the pointer
\* of node x is set to another node q; no children list is written.  One node
\* has its links touched by a caller.
ParentSet ==
  /\ Returned
  /\ root # 0
  /\ \E x \in DOMAIN nodes \ {root} :
       \E q \in DOMAIN nodes \ {x, nodes[x].parent} :
         /\ (SharedChildren \cup Astray) \subseteq {x}
         /\ nodes' = [nodes EXCEPT ![x].parent = q]
         /\ gen' = Touched(gen, nodes, nodes')
         /\ result' = [op |-> "parent_set", child |-> x]
  /\ UNCHANGED <<root, added, cursor>>
  /\ Frozen

\* One source tree whose paths all survive the difference, uncapped, and whose
\* nodes below the root have one type, so that no two of them have one identity.
InitShared ==
  /\ Init
  /\ Len(after_tree.nodes) = 1
  /\ max_root_paths = MaxCap
  /\ \A i \in DOMAIN before_tree.nodes : i > 1 => before_tree.nodes[i].type = <<"a">>

NextShared ==
  \/ create_before
  \/ ChildrenInsert
  \/ ParentSet
  \/ TraverseStart
  \/ TraverseResume

SpecShared == InitShared /\ [][NextShared]_vars

YieldsAllOnce ==
  /\ Range(result.yielded) = DOMAIN nodes
  /\ Len(result.yielded) = Len(nodes)

\* The graph has one node in the children lists of two parents, its parent
\* pointer naming either, and is a tree for the rest.
OneSharedChild == SharedChildren # {} /\ Astray = {}

\* C8: with one node in the children lists of two parents, its parent pointer
\* naming either, traverse() ends and yields each of the N nodes once.
C8_AsStated ==
  (TraversedAsIs /\ OneSharedChild) =>
    (result.terminated /\ YieldsAllOnce)

\* ------------------------------------------------ root paths of one tree
\* TreeSitterTree.get_root_paths of one of the source trees
GetRootPathsCall ==
  \E side \in {"before", "after"} :
    /\ result' = [op |-> "get_root_paths", side |-> side,
                  paths |-> get_root_paths(TreeOf(side))]
    /\ UNCHANGED <<root, nodes, added, gen, cursor>>
    /\ Frozen

\* g = tree.traverse(); next(g) on one of the source trees: the caller lets go
\* of the generator it held; the new one makes its cursor on self.root and
\* yields the node it stands on.
TreeTraverseStart ==
  \E side \in {"before", "after"} :
    /\ cursor' = [st |-> "suspended", side |-> side, node |-> TreeOf(side).root,
                  yielded |-> <<TreeOf(side).root>>]
    /\ UNCHANGED <<root, nodes, added, gen, result>>
    /\ Frozen

\* next(g) on the suspended generator: the cursor moves and the generator
\* yields the node it stands on, or reached_root ends it and the caller has
\* all it yielded.
TreeTraverseResume ==
  LET tree == TreeOf(cursor.side)
      next == CursorAdvance(tree.nodes, tree.root, cursor.node)
  IN /\ cursor.st = "suspended"
     /\ IF next = 0
        THEN /\ cursor' = NoCursor
             /\ result' = [op |-> "tree_traverse", side |-> cursor.side,
                           yielded |-> cursor.yielded]
        ELSE /\ cursor' = [cursor EXCEPT !.node = next, !.yielded = Append(@, next)]
             /\ UNCHANGED result
     /\ UNCHANGED <<root, nodes, added, gen>>
     /\ Frozen

\* The TreeSitterTrees the extraction is checked on: a whole parse tree, or the
\* tree get_subtrees makes on one of its nodes.
PathTrees ==
  UNION { { [nodes |-> t, root |-> r] : t \in ParseTreesOver(n, PathLeafTexts), r \in 1..n } :
          n \in 1..MaxTreeNodes }

\* One TreeSitterTree, on both sides of a ChangeTree that stores no path.
InitPaths ==
  /\ before_tree \in PathTrees
  /\ after_tree = before_tree
  /\ max_root_paths = 0
  /\ before_paths = StoredPaths(before_tree, max_root_paths)
  /\ after_paths = StoredPaths(after_tree, max_root_paths)
  /\ root = 0
  /\ nodes = <<>>
  /\ added = {}
  /\ gen = NoGen
  /\ cursor = NoCursor
  /\ result = [op |-> "init"]

NextPaths == GetRootPathsCall

SpecPaths == InitPaths /\ [][NextPaths]_vars

\* ------------------------------------------- traversal of a parsed tree
\* The TreeSitterTrees that are traversed: a whole parse tree, or the tree
\* get_subtrees makes on one of its nodes.
CursorTrees ==
  UNION { { [nodes |-> t, root |-> r] : t \in ParseTrees(n), r \in 1..n } :
          n \in 1..MaxCursorNodes }

\* One TreeSitterTree, on both sides of a ChangeTree with a cap that cuts no
\* path list.
InitCursor ==
  /\ before_tree \in CursorTrees
  /\ after_tree = before_tree
  /\ max_root_paths = MaxCursorNodes
  /\ before_paths = StoredPaths(before_tree, max_root_paths)
  /\ after_paths = StoredPaths(after_tree, max_root_paths)
  /\ root = 0
  /\ nodes = <<>>
  /\ added = {}
  /\ gen = NoGen
  /\ cursor = NoCursor
  /\ result = [op |-> "init"]

\* The tree is traversed while the change tree is built and let go of.
NextCursor ==
  \/ TreeTraverseStart
  \/ TreeTraverseResume
  \/ AddRootPathUpTo(MaxPathAdds)
  \/ create_before

SpecCursor == InitCursor /\ [][NextCursor]_vars

\* The nodes of the tree: its root and what lies below it.
TreeNodes(tree) ==
  { i \in DOMAIN tree.nodes : i = tree.root \/ tree.root \in Range(ancestors(tree.nodes, i)) }

TreeLeaves(tree) ==
  { i \in TreeNodes(tree) : \A j \in DOMAIN tree.nodes : tree.nodes[j].parent # i }

\* C10: get_root_paths() returns one path per leaf of the tree and none for an
\* interior node, in the order traverse() meets the leaves; a path ends at its
\* leaf, each consecutive pair in it is (parent, child), and no two paths end
\* at the same leaf.
C10_OnePathPerLeaf ==
  result.op = "get_root_paths" =>
    LET tree == TreeOf(result.side)
        t == tree.nodes
        ps == result.paths
        ends == [k \in DOMAIN ps |-> Last(ps[k])]
    IN /\ Range(ends) = TreeLeaves(tree)
       /\ Len(ps) = Cardinality(TreeLeaves(tree))
       /\ ends = SelectSeq(TreeSitterTree_traverse(tree), LAMBDA i : i \in TreeLeaves(tree))
       /\ \A k \in DOMAIN ps :
            \A i \in 1..(Len(ps[k]) - 1) : t[ps[k][i + 1]].parent = ps[k][i]

\* get_root_paths() ran on a tree with two leaves at different depths.
C10_Witness ==
  /\ result.op = "get_root_paths"
  /\ \E j, k \in DOMAIN result.paths : Len(result.paths[j]) < Len(result.paths[k])
  /\ Cardinality(TreeLeaves(TreeOf(result.side))) >= 2

\* C11: every path get_root_paths() returns starts at the tree's own root node,
\* the node get_root() returns, and holds only nodes of that tree, also when
\* the tree was made on an interior node of a larger parse tree.
C11_PathsStartAtOwnRoot ==
  result.op = "get_root_paths" =>
    LET tree == TreeOf(result.side)
    IN \A k \in DOMAIN result.paths :
         /\ result.paths[k][1] = get_root(tree)
         /\ Range(result.paths[k]) \subseteq TreeNodes(tree)

\* --------------------------------------------- the properties of the nodes
\* What the properties of TreeSitterNode give for every node of a parse tree.
NodeProperties(t) ==
  [i \in DOMAIN t |->
     [depth |-> Len(ancestors(t, i)),
      child_rank |-> TreeSitterNode_child_rank(t, i),
      relative_id |-> relative_id(t, i),
      to_node_path |-> to_node_path(t, i),
      id |-> TreeSitterNode_id(t, i),
      id_again |-> TreeSitterNode_id(t, i)]]

\* child_rank, relative_id, to_node_path and id read on every node of the two
\* source trees
NodePropertiesCall ==
  /\ result' = [op |-> "node_properties",
                before |-> NodeProperties(before_tree.nodes),
                after |-> NodeProperties(after_tree.nodes)]
  /\ UNCHANGED <<root, nodes, added, gen, cursor>>
  /\ Frozen

\* Whole parse trees, leaves with an empty text among them.
NodeTrees ==
  UNION { { [nodes |-> t, root |-> 1] : t \in ParseTreesOver(n, PathLeafTexts) } :
          n \in 1..MaxIdNodes }

\* Two parse trees on the two sides of a ChangeTree that stores no path.
InitNodes ==
  /\ before_tree \in NodeTrees
  /\ after_tree \in NodeTrees
  /\ Len(before_tree.nodes) + Len(after_tree.nodes) <= MaxIdPairNodes
  /\ max_root_paths = 0
  /\ before_paths = StoredPaths(before_tree, max_root_paths)
  /\ after_paths = StoredPaths(after_tree, max_root_paths)
  /\ root = 0
  /\ nodes = <<>>
  /\ added = {}
  /\ gen = NoGen
  /\ cursor = NoCursor
  /\ result = [op |-> "init"]

NextNodes == NodePropertiesCall

SpecNodes == InitNodes /\ [][NextNodes]_vars

\* The nodes of the two trees as <<side, index>> pairs.
AllNodes ==
  { <<"before", i>> : i \in DOMAIN before_tree.nodes }
    \cup { <<"after", i>> : i \in DOMAIN after_tree.nodes }

\* The parse-tree record of a node and what the last call read on it.
Raw(x) == TreeOf(x[1]).nodes[x[2]]
Read(x) == result[x[1]][x[2]]

\* The siblings of the same type in front of a node.
EarlierSameType(x) ==
  { j \in DOMAIN TreeOf(x[1]).nodes :
      /\ Raw(x).parent # 0
      /\ TreeOf(x[1]).nodes[j].parent = Raw(x).parent
      /\ j < x[2]
      /\ TreeOf(x[1]).nodes[j].type = Raw(x).type }

\* C12: child_rank is the number of siblings of the same type strictly before
\* the node in its parent's children; a node without a parent has rank 0.
C12_ChildRankCountsEarlierSameType ==
  result.op = "node_properties" =>
    \A x \in AllNodes :
      /\ Read(x).child_rank = Cardinality(EarlierSameType(x))
      /\ Raw(x).parent = 0 => Read(x).child_rank = 0

\* Children typed [A, B, A, A] were given the ranks [0, 0, 1, 2].
C12_Witness ==
  /\ result.op = "node_properties"
  /\ LET t == before_tree.nodes
     IN /\ Len(t) = 5
        /\ \A i \in 2..5 : t[i].parent = 1
        /\ t[2].type = t[4].type /\ t[4].type = t[5].type /\ t[3].type # t[2].type
        /\ [i \in 1..4 |-> result.before[i + 1].child_rank] = <<0, 0, 1, 2>>

\* C13: two distinct nodes of one parse tree have different identities, and the
\* identity of a node read twice is the same value.
C13_DistinctNodesDistinctIds ==
  result.op = "node_properties" =>
    /\ \A x \in AllNodes : Read(x).id = Read(x).id_again
    /\ \A x, y \in AllNodes :
         (x[1] = y[1] /\ x[2] # y[2]) => Read(x).id # Read(y).id

RECURSIVE ParentAt(_, _, _)
\* The node k parent links above node i (k = 1: the immediate parent).
ParentAt(t, i, k) == IF k = 0 THEN i ELSE ParentAt(t, t[i].parent, k - 1)

\* The relative fingerprints of the ancestors of a node, each looked up on the
\* ancestor itself, the immediate parent first.
AncestorFingerprints(x) ==
  [k \in 1..Read(x).depth |->
     Read(<<x[1], ParentAt(TreeOf(x[1]).nodes, x[2], k)>>).relative_id]

\* C14: the identities of two nodes, of one tree or of two, are equal exactly
\* when their relative fingerprints are equal and their ancestor chains have
\* the same length and pairwise equal relative fingerprints.
C14_IdIffFingerprintChain ==
  result.op = "node_properties" =>
    \A x, y \in AllNodes :
      Read(x).id = Read(y).id <=>
        /\ Read(x).relative_id = Read(y).relative_id
        /\ Read(x).depth = Read(y).depth
        /\ \A k \in 1..Read(x).depth :
             AncestorFingerprints(x)[k] = AncestorFingerprints(y)[k]

\* Nodes of the two trees, below the roots, have one identity, and two others
\* have one relative fingerprint under different ancestors.
C14_Witness ==
  /\ result.op = "node_properties"
  /\ \E i \in DOMAIN before_tree.nodes, j \in DOMAIN after_tree.nodes :
       /\ result.before[i].depth >= 1
       /\ result.before[i].id = result.after[j].id
  /\ \E x, y \in AllNodes :
       /\ Read(x).relative_id = Read(y).relative_id
       /\ Read(x).id # Read(y).id

\* C19: two nodes have the same relative_id exactly when they agree on depth,
\* child_rank, type, on whether they are leaves, and as leaves on their
\* value, for every type and value, '_' and the empty text included.
C19_RelativeIdIffTuple ==
  result.op = "node_properties" =>
    \A x, y \in AllNodes :
      Read(x).relative_id = Read(y).relative_id <=>
        /\ Read(x).depth = Read(y).depth
        /\ Read(x).child_rank = Read(y).child_rank
        /\ Raw(x).type = Raw(y).type
        /\ is_leaf(TreeOf(x[1]).nodes, x[2]) = is_leaf(TreeOf(y[1]).nodes, y[2])
        /\ is_leaf(TreeOf(x[1]).nodes, x[2]) => Raw(x).text = Raw(y).text

\* C20 as stated: to_node_path is the relative fingerprints of the ancestors
\* from the root down to the immediate parent; empty for a root.
C20_AsStated ==
  result.op = "node_properties" =>
    \A x \in AllNodes :
      LET n == Read(x).depth
      IN Read(x).to_node_path = [k \in 1..n |-> AncestorFingerprints(x)[n + 1 - k]]

\* C20, amended: to_node_path is the relative fingerprints of the ancestors
\* from the immediate parent up to the root: the parent's comes first and the
\* root's last; empty for a root.
C20_ParentFirstRootLast ==
  result.op = "node_properties" =>
    \A x \in AllNodes :
      /\ Read(x).to_node_path = AncestorFingerprints(x)
      /\ Raw(x).parent = 0 => Read(x).to_node_path = <<>>

\* A node three levels down was read: its path has three fingerprints, the
\* root's one the last.
C20_Witness ==
  /\ result.op = "node_properties"
  /\ \E x \in AllNodes :
       /\ Read(x).depth = 3
       /\ Len(Read(x).to_node_path) = 3
       /\ Read(x).to_node_path[3] = Read(<<x[1], 1>>).relative_id
       /\ Read(x).to_node_path[1] # Read(x).to_node_path[3]

\* ------------------------------------------------ construction starts anew
\* The tree create_before() and create_after() make on a fresh ChangeTree over
\* the two source trees.
FreshBefore ==
  create_path_diffs(EmptyChangeTree, before_tree.nodes, before_paths, after_paths)
FreshAfter ==
  create_path_diffs(EmptyChangeTree, after_tree.nodes, after_paths, before_paths)

\* C15: whatever create_before, create_after and add_root_path calls came
\* before, create_before() (create_after()) leaves the tree it makes on a fresh
\* ChangeTree over the same source trees: same identities, same parent and
\* child links, same child order.
C15_CreateResets ==
  /\ result.op = "create_before" =>
       /\ root = FreshBefore.root
       /\ nodes = FreshBefore.nodes
       /\ result.raised = FreshBefore.raised
  /\ result.op = "create_after" =>
       /\ root = FreshAfter.root
       /\ nodes = FreshAfter.nodes
       /\ result.raised = FreshAfter.raised

\* create_before() ran on a ChangeTree that held a tree of another size and
\* left a tree with a branching node.
C15_Witness ==
  /\ result.op = "create_before"
  /\ result.replaced > 0
  /\ result.replaced # Len(nodes)
  /\ \E n \in DOMAIN nodes : Len(nodes[n].children) >= 2

\* ------------------------------------------------ traversal leaves the tree
\* C16: no next() of a traversal, the first, a later one or the last, changes
\* a node, a parent link, a children list or the root, and a traversal that
\* follows a traversal of the same tree, the tree left alone all the while,
\* yields the same nodes in the same order.
C16_TraverseReadOnly ==
  [][(TraverseStart \/ TraverseResume) =>
       /\ root' = root
       /\ nodes' = nodes
       /\ (result'.op = "traverse" /\ result'.again) =>
            result'.yielded = result.yielded]_vars

\* A second traversal in a row ran over a tree of four nodes or more with a
\* branching node.
C16_Witness ==
  /\ TraversedAsIs
  /\ result.again
  /\ Len(result.yielded) >= 4
  /\ \E n \in DOMAIN nodes : Len(nodes[n].children) >= 2

\* ----------------------------------------------------- order of traversal
\* The position at which the last traversal yielded node n (0: not yielded).
Pos(n) == IndexOf(result.yielded, n)

\* Node n and everything below it along the children lists.
Under(n) == ReachableFrom(nodes, {n})

\* C17: on a tree the construction calls made, traverse() yields depth-first
\* pre-order: a node before everything below it, and everything under an
\* earlier child before anything under a later child of the same node.
C17_DepthFirstPreOrder ==
  TraversedAsIs =>
    \A n \in DOMAIN nodes :
      /\ Pos(n) > 0
      /\ \A d \in Under(n) \ {n} : Pos(n) < Pos(d)
      /\ \A j, k \in DOMAIN nodes[n].children :
           j < k => \A x \in Under(nodes[n].children[j]),
                       y \in Under(nodes[n].children[k]) : Pos(x) < Pos(y)

\* The traversal yielded a grandchild of the root before a later child of the
\* root: the order is not breadth-first.
C17_Witness ==
  /\ TraversedAsIs
  /\ root # 0
  /\ \E j, k \in DOMAIN nodes[root].children :
       /\ j < k
       /\ nodes[nodes[root].children[j]].children # <<>>
       /\ Pos(nodes[nodes[root].children[j]].children[1]) < Pos(nodes[root].children[k])

\* C18: on every finite graph of change-tree nodes, one whose parent links form
\* a cycle included, the traversal terminates.
C18_TraverseTerminates ==
  result.op = "traverse" => result.terminated

\* ------------------------------------- change-tree nodes and their sources
\* The source tree whose paths the last create call merged.
Base == IF result.op = "create_before" THEN before_tree ELSE after_tree

\* The nodes of the source tree that have the identity of change-tree node n.
SourceNodes(n) ==
  { i \in DOMAIN Base.nodes : TreeSitterNode_id(Base.nodes, i) = nodes[n].id }

\* The siblings of change-tree node n of its type that stand before it in the
\* children list of its parent.
EarlierSameTypeInTree(n) ==
  IF nodes[n].parent = 0 THEN {}
  ELSE LET ch == nodes[nodes[n].parent].children
       IN { k \in DOMAIN ch : k < IndexOf(ch, n) /\ nodes[ch[k]].type = nodes[n].type }

\* C21 as stated: the child_rank of a node of a change tree a create call made
\* is the number of same-type siblings before it in the change tree.
C21_AsStated ==
  (Created /\ ~result.raised) =>
    \A n \in DOMAIN nodes : nodes[n].child_rank = Cardinality(EarlierSameTypeInTree(n))

\* C21, amended: the child_rank of a node of a change tree a create call made
\* is the child_rank of its source node: the number of same-type siblings
\* before that node in the source parse tree.
C21_RankOfSourceNode ==
  (Created /\ ~result.raised) =>
    \A n \in DOMAIN nodes :
      /\ SourceNodes(n) # {}
      /\ \A i \in SourceNodes(n) :
           nodes[n].child_rank = TreeSitterNode_child_rank(Base.nodes, i)

\* A create call made a node of rank 1 that is the first of its type under its
\* parent in the change tree.
C21_Witness ==
  /\ Created /\ ~result.raised
  /\ \E n \in DOMAIN nodes :
       /\ nodes[n].child_rank = 1
       /\ EarlierSameTypeInTree(n) = {}

\* ------------------------------------------------ add_root_path appends
\* C22: a successful add_root_path creates zero or more nodes, each the last
\* child of its parent, and leaves every node that was there with its
\* identity, type, value, child_rank and parent, and with the children it had
\* in front of any new one; it removes and re-parents nothing.
C22_AddOnlyAppends ==
  [][(result'.op = "add_root_path" /\ ~result'.raised) =>
       /\ Len(nodes') >= Len(nodes)
       /\ root # 0 => root' = root
       /\ \A n \in DOMAIN nodes :
            /\ nodes'[n].id = nodes[n].id
            /\ nodes'[n].type = nodes[n].type
            /\ nodes'[n].value = nodes[n].value
            /\ nodes'[n].child_rank = nodes[n].child_rank
            /\ nodes'[n].parent = nodes[n].parent
            /\ Len(nodes'[n].children) >= Len(nodes[n].children)
            /\ SubSeq(nodes'[n].children, 1, Len(nodes[n].children)) = nodes[n].children
       /\ \A m \in (DOMAIN nodes') \ (DOMAIN nodes) :
            nodes'[m].parent # 0 =>
              Last(nodes'[nodes'[m].parent].children) = m]_vars

\* add_root_path created a node under a node that had a child already.
C22_Witness ==
  /\ result.op = "add_root_path"
  /\ ~result.raised
  /\ result.created >= 1
  /\ \E n \in DOMAIN nodes :
       /\ n <= Len(nodes) - result.created
       /\ Len(nodes[n].children) >= 2
       /\ Last(nodes[n].children) > Len(nodes) - result.created

\* C25: an add_root_path that raises the inconsistent-root error leaves the
\* ChangeTree as it was: same root, same nodes, same parent links and children
\* lists.
C25_RaiseLeavesTree ==
  [][(result'.op = "add_root_path" /\ result'.raised) =>
       /\ root' = root
       /\ nodes' = nodes]_vars

\* add_root_path raised on a tree of two nodes or more for a path of another
\* root.
C25_Witness ==
  /\ result.op = "add_root_path"
  /\ result.raised
  /\ result.created = 0
  /\ Len(nodes) >= 2
  /\ result.first_id # nodes[root].id

\* ------------------------------------- add_root_path: repetition and order
\* The root paths of the two source trees, each with the tree it is a path of.
AllRootPaths ==
  { <<"before", p>> : p \in Range(get_root_paths(before_tree)) }
    \cup { <<"after", p>> : p \in Range(get_root_paths(after_tree)) }

\* add_root_path with path P on change tree ct.
AddTo(ct, P) == add_root_path(ct, TreeOf(P[1]).nodes, P[2])

\* The identities of the nodes of a change tree and its parent relation on them.
IdsOf(ct) == { ct.nodes[n].id : n \in DOMAIN ct.nodes }
ParentIdsOf(ct) ==
  { <<ct.nodes[ct.nodes[n].parent].id, ct.nodes[n].id>> :
      n \in { k \in DOMAIN ct.nodes : ct.nodes[k].parent # 0 } }

\* C30: on the tree an add_root_path call left, adding a path that is there
\* already creates no node and changes nothing, and adding two paths of one
\* root in either order gives the same identities and the same parent relation.
C30_AddIdempotentCommutes ==
  (result.op = "add_root_path" /\ ~result.raised) =>
    LET ct == [root |-> root, nodes |-> nodes, raised |-> FALSE]
    IN \A P \in AllRootPaths :
         LET one == AddTo(ct, P)
         IN ~one.raised =>
              /\ RootPath(TreeOf(P[1]).nodes, P[2]).node_ids \in added => one = ct
              /\ AddTo(one, P) = one
              /\ \A Q \in AllRootPaths :
                   LET pq == AddTo(one, Q)
                       qp == AddTo(AddTo(ct, Q), P)
                   IN (~pq.raised /\ ~qp.raised) =>
                        /\ IdsOf(pq) = IdsOf(qp)
                        /\ ParentIdsOf(pq) = ParentIdsOf(qp)

\* add_root_path was called with a path that was in the tree and created no
\* node, on a tree with a branching node that two other paths can be added to.
C30_Witness ==
  /\ result.op = "add_root_path"
  /\ ~result.raised
  /\ result.created = 0
  /\ \E n \in DOMAIN nodes : Len(nodes[n].children) >= 2
  /\ \E P, Q \in AllRootPaths :
       LET ct == [root |-> root, nodes |-> nodes, raised |-> FALSE]
       IN /\ P # Q
          /\ ~AddTo(AddTo(ct, P), Q).raised
          /\ AddTo(AddTo(ct, P), Q).nodes # AddTo(AddTo(ct, Q), P).nodes

\* ----------------------------- derived properties of a change-tree node
\* Node.is_leaf on a ChangeTreeNode: its own children list is empty
ChangeTreeNode_is_leaf(ns, n) == Len(ns[n].children) = 0

\* Node.relative_id on a ChangeTreeNode: depth from its own parent chain, its
\* stored child_rank and type, and its stored value when it has no children
ChangeTreeNode_relative_id(ns, n) ==
  NodeDigest(RelativeStr(Len(ancestors(ns, n)), ns[n].child_rank, ns[n].type,
                         IF ChangeTreeNode_is_leaf(ns, n) THEN ns[n].value ELSE <<>>))

\* Node.to_node_path on a ChangeTreeNode
ChangeTreeNode_to_node_path(ns, n) ==
  LET anc == ancestors(ns, n)
  IN [k \in DOMAIN anc |-> ChangeTreeNode_relative_id(ns, anc[k])]

\* The paths the last create call merged, in the order it merged them.
MergedPaths ==
  IF result.op = "create_before" THEN changed_paths(before_paths, after_paths)
  ELSE changed_paths(after_paths, before_paths)

\* The source node change-tree node n was made from: the node at the depth of n
\* on the first merged path that has the identity of n there.
Creator(n) ==
  LET d == Len(ancestors(nodes, n)) + 1
      through == { k \in DOMAIN MergedPaths :
                     /\ Len(MergedPaths[k].path) >= d
                     /\ MergedPaths[k].node_ids[d] = nodes[n].id }
  IN MergedPaths[CHOOSE k \in through : \A j \in through : k <= j].path[d]

\* C24: on a change tree a create call made, the properties derived from the
\* change-tree node itself agree with its source node: same depth, same
\* relative_id, and the digest of its relative_id and to_node_path is the
\* identity it stores.
C24_DerivedAgreeWithSource ==
  (Created /\ ~result.raised) =>
    \A n \in DOMAIN nodes :
      /\ NodeDigest(<<ChangeTreeNode_relative_id(nodes, n), "_">>
                      \o ChangeTreeNode_to_node_path(nodes, n)) = nodes[n].id
      /\ Len(ancestors(nodes, n)) = Len(ancestors(Base.nodes, Creator(n)))
      /\ ChangeTreeNode_relative_id(nodes, n) = relative_id(Base.nodes, Creator(n))

\* C27: after a create call a node of the change tree has no children exactly
\* when its source node is a leaf of the source tree.
C27_LeafIffSourceLeaf ==
  (Created /\ ~result.raised) =>
    \A n \in DOMAIN nodes :
      ChangeTreeNode_is_leaf(nodes, n) <=> is_leaf(Base.nodes, Creator(n))

\* ------------------------------------ pre-order of a parsed tree, C23
RECURSIVE PreOrder(_, _)
\* Depth-first pre-order of the subtree of node r: r, then the pre-order of each
\* child in child order.
PreOrder(t, r) ==
  LET ch == TreeSitterNode_children(t, r)
  IN <<r>> \o Flatten([k \in DOMAIN ch |-> PreOrder(t, ch[k])])

\* C23: TreeSitterTree.traverse() ends and yields the nodes of the tree rooted
\* at self.root, each once, in depth-first pre-order, and no node outside that
\* subtree; on a single-node tree it yields the root alone.
C23_TreeTraverseCoversSubtree ==
  result.op = "tree_traverse" =>
    LET tree == TreeOf(result.side)
        ys == result.yielded
    IN /\ ys = PreOrder(tree.nodes, tree.root)
       /\ Range(ys) = TreeNodes(tree)
       /\ \A i, j \in DOMAIN ys : i # j => ys[i] # ys[j]
       /\ TreeLeaves(tree) = {tree.root} => ys = <<tree.root>>

\* traverse() ran on a tree made on an interior node that has a later sibling.
C23_Witness ==
  /\ result.op = "tree_traverse"
  /\ LET tree == TreeOf(result.side)
         t == tree.nodes
     IN /\ tree.root # 1
        /\ goto_next_sibling_Unconfined(t, tree.root, tree.root) # 0
        /\ goto_first_child(t, tree.root) # 0
  /\ Len(result.yielded) >= 2

\* ------------------------------------------- change trees of subtrees
\* The TreeSitterTrees a ChangeTree can be given: a whole parse tree, or the
\* tree get_subtrees or get_method_by_pos makes on one of its nodes.
SubTrees ==
  UNION { { [nodes |-> t, root |-> r] : t \in ParseTrees(n), r \in 1..n } :
          n \in 1..MaxNodes }

\* ChangeTree.__init__ on two such trees
InitSubtrees ==
  /\ before_tree \in SubTrees
  /\ after_tree \in SubTrees
  /\ Len(before_tree.nodes) + Len(after_tree.nodes) <= MaxPairNodes
  /\ max_root_paths \in 0..MaxCap
  /\ before_paths = StoredPaths(before_tree, max_root_paths)
  /\ after_paths = StoredPaths(after_tree, max_root_paths)
  /\ root = 0
  /\ nodes = <<>>
  /\ added = {}
  /\ gen = NoGen
  /\ cursor = NoCursor
  /\ result = [op |-> "init"]

NextSubtrees == create_before \/ create_after

SpecSubtrees == InitSubtrees /\ [][NextSubtrees]_vars

\* C26: create_before() and create_after() never raise the inconsistent-root
\* error, whatever the two source trees (whole parse trees or subtrees) and
\* the cap, and whatever tree an earlier run left behind.
C26_CreateNeverRaises ==
  result.op \in {"create_before", "create_after"} => ~result.raised

\* A create call replaced an earlier tree by one merged from two or more paths
\* of a tree made on an interior node, the other source tree having a root of
\* another identity.
C26_Witness ==
  /\ result.op \in {"create_before", "create_after"}
  /\ result.replaced > 0
  /\ Cardinality(added) >= 2
  /\ LET base == IF result.op = "create_before" THEN before_tree ELSE after_tree
         other == IF result.op = "create_before" THEN after_tree ELSE before_tree
     IN /\ base.root # 1
        /\ TreeSitterNode_id(base.nodes, 1) # TreeSitterNode_id(other.nodes, 1)

\* ------------------------------------- the two change trees of one pair
\* The leaves of a change tree, and its root-to-leaf identity sequences.
LeavesOf(ns) == { k \in DOMAIN ns : ns[k].children = <<>> }
LeafIdPathsOf(ns) == { IdsToRoot(ns, n) : n \in LeavesOf(ns) }
LeafIdsOf(ns) == { ns[n].id : n \in LeavesOf(ns) }

\* The tree the other construction mode makes of the same source trees.
OtherMode == IF result.op = "create_before" THEN FreshAfter ELSE FreshBefore

\* C29: the change tree create_before() builds and the one create_after()
\* builds of the same pair of source trees have no root-to-leaf identity
\* sequence in common and no leaf identity in common.
C29_ModesDisjoint ==
  (Created /\ ~result.raised) =>
    /\ ~OtherMode.raised
    /\ LeafIdPathsOf(nodes) \cap LeafIdPathsOf(OtherMode.nodes) = {}
    /\ LeafIdsOf(nodes) \cap LeafIdsOf(OtherMode.nodes) = {}

\* Both modes build a tree, and the stored paths of the two sides have an
\* identity sequence in common that neither tree may hold.
C29_Witness ==
  /\ Created
  /\ ~result.raised
  /\ nodes # <<>>
  /\ OtherMode.nodes # <<>>
  /\ IdSeqs(before_paths) \cap IdSeqs(after_paths) # {}

\* --------------------------------------------- the order of a change tree
\* The source trees the order of the change tree is read on.
OrderTrees ==
  UNION { { [nodes |-> t, root |-> 1] : t \in ParseTrees(n) } : n \in 1..MaxOrderNodes }

\* ChangeTree.__init__ on two such trees, with every cap up to one that cuts no
\* path list
InitOrder ==
  /\ before_tree \in OrderTrees
  /\ after_tree \in OrderTrees
  /\ Len(before_tree.nodes) + Len(after_tree.nodes) <= MaxOrderPairNodes
  /\ max_root_paths \in 0..MaxOrderNodes
  /\ before_paths = StoredPaths(before_tree, max_root_paths)
  /\ after_paths = StoredPaths(after_tree, max_root_paths)
  /\ root = 0
  /\ nodes = <<>>
  /\ added = {}
  /\ gen = NoGen
  /\ cursor = NoCursor
  /\ result = [op |-> "init"]

NextOrder == create_before \/ create_after

SpecOrder == InitOrder /\ [][NextOrder]_vars

\* C28: after create_before() or create_after() the children of every
\* change-tree node stand in the order of their source nodes, and traverse()
\* yields the nodes of the change tree in the pre-order of their source nodes
\* in the source parse tree.
C28_SourceOrderKept ==
  (Created /\ ~result.raised /\ root # 0) =>
    /\ \A n \in DOMAIN nodes :
         \A j, k \in DOMAIN nodes[n].children :
           j < k => Creator(nodes[n].children[j]) < Creator(nodes[n].children[k])
    /\ LET ys == ChangeTree_traverse(root, nodes).yielded
       IN \A j, k \in DOMAIN ys : j < k => Creator(ys[j]) < Creator(ys[k])

====
